---- MODULE Spec2Model ----
(***************************************************************************)
(* Dynamic risk assessment pipeline: ingestion (ingestion.py), scoring     *)
(* (scoring.py), training (training.py), deployment (deployment.py), the   *)
(* serving step (app.py, apicalls.py, diagnostics.py), reporting           *)
(* (reporting.py) and the orchestrator that chains them (fullprocess.py).  *)
(*                                                                         *)
(* Files are records [exists, data].  Text files are modelled by their     *)
(* ", "-separated tokens, so that writing a line and splitting it again    *)
(* are two different operators.  Every timestamp is the token "ts" and the *)
(* input folder's path is the token "loc".                                 *)
(***************************************************************************)
EXTENDS Integers, Sequences, FiniteSets, TLC

\* ------------------------------------------------------------------ bounds

\* The ledger (ingestedfiles.txt) is never truncated: cap its length.
MaxLedger == 3
\* fullprocess.py is started at most MaxCycles times.
MaxCycles == 2
\* apicalls.py is run at most MaxCalls times on one output folder.
MaxCalls == 2
\* The numbered names that may lie in the output folder beforehand carry a
\* number from 1 to MaxNumber.
MaxNumber == 3

\* ------------------------------------------------------- the file universe

\* A file name is the sequence of its pieces between occurrences of ", ".
\* "a.csv, c.csv" is one name of two pieces.
FileNames == { <<"a.csv">>, <<"b.csv">>, <<"a.csv", "c.csv">>, <<"notes.txt">> }

\* The names under which source files come and go (notes.txt lies in the
\* input folder throughout): plain names, and with a name that holds ", ".
PlainNames == { <<"a.csv">>, <<"b.csv">> }

CommaNames == { <<"a.csv">>, <<"a.csv", "c.csv">> }

\* F1 scores are floats in [0, 1]: the model uses a grid of three values.
Scores == {0, 1, 2}

NoFile == [exists |-> FALSE, data |-> <<>>]

File(d) == [exists |-> TRUE, data |-> d]

\* What may lie in the input folder under a name: nothing, a CSV text that
\* pandas parses into rows, or bytes that pd.read_csv rejects.  Rows are
\* compared by exact equality.
NoSource == [exists |-> FALSE, readable |-> FALSE, data |-> <<>>]

Readable(df) == [exists |-> TRUE, readable |-> TRUE, data |-> df]

Unreadable == [exists |-> TRUE, readable |-> FALSE, data |-> <<>>]

\* The contents each name is given in the model: a.csv can change content,
\* b.csv can be unparseable and repeats a row, "a.csv, c.csv" is a CSV file
\* without the feature and target columns.
SourceContents(name) ==
    CASE name = <<"a.csv">> -> { Readable(<<"r1">>), Readable(<<"r2">>) }
      [] name = <<"b.csv">> -> { Readable(<<"r2", "r2">>), Unreadable }
      [] name = <<"a.csv", "c.csv">> -> { Readable(<<"nocols">>) }
      [] OTHER -> { Readable(<<"r1">>) }

\* ------------------------------------------------------------------- state

VARIABLES
    input,          \* input_folder_path: file name -> source file
    finaldata,      \* output_folder_path/finaldata.csv
    ledger,         \* output_folder_path/ingestedfiles.txt, a sequence of lines
    staging,        \* output_model_path: trainedmodel.pkl, latestscore.txt
    deployed,       \* deployment_path: trainedmodel.pkl, latestscore.txt, ingestedfiles.txt
    pc,             \* position of fullprocess.main
    new_files,      \* main's local new_files
    deployed_score, \* check_model_drift's local deployed_score (<<>> is None)
    new_score,      \* check_model_drift's local new_score (<<>> before it is set)
    drift,          \* the value check_model_drift returned
    copied,         \* artifacts store_inference_pipe_artifacts has handled so far
    flask,          \* the app.py process started by main is running
    raised,         \* the exception that ended main ("" when none)
    before_deploy,  \* history: the deployed folder as step 5 found it
    written,        \* history: how the writes of the latest merge ended
    stages,         \* history: the stages main has entered in this cycle
    cycles,         \* history: how many times fullprocess.py has been started
    base_path,      \* get_unique_file_path: the names that exist in base_path
    file_name,      \* get_unique_file_path's argument, a sequence of characters
    file_path,      \* get_unique_file_path's local file_path (the name part)
    counter,        \* get_unique_file_path's local counter
    path_pc,        \* position of apicalls.py around get_unique_file_path
    calls,          \* history: how many times apicalls.py has asked for a path
    overwritten     \* history: the latest write opened a file that existed

vars == << input, finaldata, ledger, staging, deployed, pc, new_files,
           deployed_score, new_score, drift, copied, flask, raised,
           before_deploy, written, stages, cycles,
           base_path, file_name, file_path, counter, path_pc, calls,
           overwritten >>

\* The state of the pipeline.
vars_pipeline == << input, finaldata, ledger, staging, deployed, pc, new_files,
                    deployed_score, new_score, drift, copied, flask, raised,
                    before_deploy, written, stages, cycles >>

\* The state of the output-file naming of apicalls.py.
path_vars == << base_path, file_name, file_path, counter, path_pc, calls,
               overwritten >>

\* ----------------------------------------------------------------- helpers

Range(s) == { s[i] : i \in 1 .. Len(s) }

\* The orders in which a set can be iterated (Python set and directory
\* iteration orders are arbitrary).
Orders(S) == { s \in [1 .. Cardinality(S) -> S] : Range(s) = S }

\* pathlib's Path.suffix of a file name: it is read off the last piece.
Suffix(name) ==
    IF name[Len(name)] \in {"a.csv", "b.csv", "c.csv"} THEN ".csv" ELSE ".txt"

\* pd.concat(df_list, ignore_index=True)
RECURSIVE Concat(_)
Concat(frames) ==
    IF frames = <<>> THEN <<>> ELSE Head(frames) \o Concat(Tail(frames))

\* DataFrame.drop_duplicates(): keeps the first occurrence of every row.
RECURSIVE DropDuplicates(_)
DropDuplicates(df) ==
    IF df = <<>> THEN <<>>
    ELSE LET init == DropDuplicates(SubSeq(df, 1, Len(df) - 1))
             last == df[Len(df)]
         IN IF last \in Range(init) THEN init ELSE Append(init, last)

\* ------------------------------------------------------ ingestion ledger

\* One element of log_list, as merge_multiple_data_sources builds it.
LogEntry(name, df) ==
    [ingest_time |-> "ts", file |-> name, source_location |-> "loc",
     row_count |-> Len(df)]

\* The line written for a log entry:
\* f"{ingest_time}, {file}, {source_location}, {row_count}\n", as its
\* ", "-separated tokens.  `file` and `rows` are history: the name the line
\* was written for and the rows the file held when it was parsed.
LedgerLine(entry, df) ==
    [line |-> <<entry.ingest_time>> \o entry.file
                  \o <<entry.source_location, entry.row_count>>,
     file |-> entry.file,
     rows |-> df]

\* line.split(", ")[1].strip(): the second token of a ledger line, as a name.
IngestedName(l) == << l.line[2] >>

\* {file.name for file in input_folder_path.iterdir() if file.suffix == ".csv"}
SourceFiles(in) == { n \in FileNames : in[n].exists /\ Suffix(n) = ".csv" }

\* fullprocess.check_new_data
check_new_data(in, lg) ==
    IF ~lg.exists
    THEN SourceFiles(in)
    ELSE SourceFiles(in) \ { IngestedName(l) : l \in Range(lg.data) }

\* ------------------------------------------------------------- ingestion

\* A file of the input folder that merge_multiple_data_sources ingests: it
\* exists, its suffix is .csv and pd.read_csv parses it.
ValidIn(n, in) == in[n].exists /\ Suffix(n) = ".csv" /\ in[n].readable

\* A file loop that gives up the whole batch at the first file it cannot
\* ingest.
Parsed_AbortOnBad(order, in) ==
    IF \E i \in 1 .. Len(order) : ~ValidIn(order[i], in) THEN <<>> ELSE order

\* The files of an iteration order that pass the exists/suffix test and that
\* pd.read_csv parses (the others are logged and skipped).
Parsed(order, in) ==
    SelectSeq(order, LAMBDA n : in[n].exists /\ Suffix(n) = ".csv" /\ in[n].readable)

df_list(order, in) ==
    LET p == Parsed(order, in) IN [i \in 1 .. Len(p) |-> in[p[i]].data]

log_list(order, in) ==
    LET p == Parsed(order, in)
    IN [i \in 1 .. Len(p) |-> LedgerLine(LogEntry(p[i], in[p[i]].data), in[p[i]].data)]

\* ingest_df = pd.concat(df_list, ignore_index=True).drop_duplicates()
ingest_df(order, in) == DropDuplicates(Concat(df_list(order, in)))

\* A dataset write that adds the merged frame to the rows already there.
MergedData_Append(order, in, fd) == File(fd.data \o ingest_df(order, in))

\* What ingest_df.to_csv(output_file_path) leaves in finaldata.csv, given
\* the finaldata.csv that was there.
MergedData(order, in, fd) == File(ingest_df(order, in))

\* A ledger write that opens ingestedfiles.txt with "w".
AppendedLedger_Rewrite(order, in, lg) == File(log_list(order, in))

\* What the "a+" loop over log_list leaves in ingestedfiles.txt.
AppendedLedger(order, in, lg) == File(lg.data \o log_list(order, in))

\* Outcomes of the two writes of a merge: both succeed, to_csv raises (the
\* except clause logs it; the ledger is not opened), or opening the ledger
\* raises after the dataset was written.
WriteOutcomes == {"ok", "dataset_fails", "ledger_fails"}

\* A merge that writes the dataset and the ledger even when no frame was
\* parsed.
merge_without_guard(order, outcome) ==
    /\ written' = outcome
    /\ IF outcome = "dataset_fails"
       THEN UNCHANGED << finaldata, ledger >>
       ELSE /\ finaldata' = MergedData(order, input, finaldata)
            /\ IF outcome = "ledger_fails"
               THEN UNCHANGED ledger
               ELSE ledger' = AppendedLedger(order, input, ledger)

\* A merge that appends the ledger lines before it writes the dataset, so
\* that a failing dataset write leaves the lines behind.
merge_ledger_first(order, outcome) ==
    IF df_list(order, input) = <<>>
    THEN /\ written' = "none"
         /\ UNCHANGED << finaldata, ledger >>
    ELSE /\ written' = outcome
         /\ IF outcome = "ledger_fails"
            THEN UNCHANGED << finaldata, ledger >>
            ELSE /\ ledger' = AppendedLedger(order, input, ledger)
                 /\ IF outcome = "dataset_fails"
                    THEN UNCHANGED finaldata
                    ELSE finaldata' = MergedData(order, input, finaldata)

\* ingestion.merge_multiple_data_sources over the files in `order`; with no
\* parsed frame nothing is written ("none").
merge_multiple_data_sources(order, outcome) ==
    IF df_list(order, input) = <<>>
    THEN /\ written' = "none"
         /\ UNCHANGED << finaldata, ledger >>
    ELSE /\ written' = outcome
         /\ IF outcome = "dataset_fails"
            THEN UNCHANGED << finaldata, ledger >>
            ELSE /\ finaldata' = MergedData(order, input, finaldata)
                 /\ IF outcome = "ledger_fails"
                    THEN UNCHANGED ledger
                    ELSE ledger' = AppendedLedger(order, input, ledger)

\* The ledger stays within the model's bound after a merge over `order`.
WithinLedgerBound(order) ==
    Len(ledger.data) + Len(Parsed(order, input)) <= MaxLedger

\* ----------------------------------------------------------------- scoring

\* str(f1) inside the f-string: the decimal text of a float of the grid.
FloatStr(f1) == CASE f1 = 0 -> "0.0" [] f1 = 1 -> "0.5" [] OTHER -> "1.0"

\* The tokens float() accepts, among those of the model.
FloatTokens == { FloatStr(f1) : f1 \in Scores }

\* The line score_model writes: f"{scoring_time}, {f1}\n".
ScoreRecord(f1) == << "ts", FloatStr(f1) >>

\* f.read().strip().split(", ") over the whole file: the last token of a
\* line and the first token of the next line are one token ("0.5\nts"),
\* which is not the text of a float; an empty file gives the one token "".
RECURSIVE ReadTokens(_)
ReadTokens(lines) ==
    IF lines = <<>> THEN << "" >>
    ELSE IF Len(lines) = 1 THEN lines[1]
    ELSE LET rest == ReadTokens(Tail(lines))
         IN SubSeq(Head(lines), 1, Len(Head(lines)) - 1)
               \o << "joined" >> \o Tail(rest)

\* "_, deployed_score_str = last_line.split(", ")" and float(...): defined
\* only for a file of exactly two tokens whose second is a float.
ScoreParses(lines) ==
    LET tokens == ReadTokens(lines)
    IN Len(tokens) = 2 /\ tokens[2] \in FloatTokens

\* float(deployed_score_str)
ParsedScore(lines) ==
    LET tokens == ReadTokens(lines)
    IN CHOOSE f1 \in Scores : FloatStr(f1) = tokens[2]

\* test_data_df[features], test_data_df[target]: the columns are there when
\* some frame of the dataset had them ("nocols" is a row of a file that has
\* none of them); a row without them is NaN in these columns.
HasColumns(data) == \E i \in 1 .. Len(data.data) : data.data[i] # "nocols"

NoNaN(data) == \A i \in 1 .. Len(data.data) : data.data[i] # "nocols"

\* A score_model that does not look for the columns it needs.
ScoreResults_NoSchemaCheck(slot, data) ==
    IF ~slot.model.exists \/ ~data.exists
    THEN { [ok |-> FALSE, f1 |-> 0, error |-> "FileNotFoundError"] }
    ELSE { [ok |-> TRUE, f1 |-> s, error |-> ""] : s \in Scores }

\* scoring.score_model(model_path, test_data): FileNotFoundError when the
\* model or the data is missing, KeyError when the data lacks the feature
\* or target columns, ValueError from predict on NaN, otherwise some F1.
ScoreResults(slot, data) ==
    IF ~slot.model.exists \/ ~data.exists
    THEN { [ok |-> FALSE, f1 |-> 0, error |-> "FileNotFoundError"] }
    ELSE IF ~HasColumns(data)
    THEN { [ok |-> FALSE, f1 |-> 0, error |-> "KeyError"] }
    ELSE IF ~NoNaN(data)
    THEN { [ok |-> FALSE, f1 |-> 0, error |-> "ValueError"] }
    ELSE { [ok |-> TRUE, f1 |-> s, error |-> ""] : s \in Scores }

\* A score_model that opens latestscore.txt for appending.
WrittenScore_Append(old, slot, data, f1) ==
    [exists |-> TRUE, data |-> old.data \o << ScoreRecord(f1) >>,
     of |-> slot.model.data, on |-> data.data]

\* What open(latest_score_file_path, "w") and the write leave in the slot's
\* latestscore.txt, in place of `old`: a sequence of lines.  `of` and `on`
\* are history: the model and the data the record was computed from.
WrittenScore(old, slot, data, f1) ==
    [exists |-> TRUE, data |-> << ScoreRecord(f1) >>,
     of |-> slot.model.data, on |-> data.data]

\* A reading of latestscore.txt that takes a record it cannot parse for no
\* record.
Baseline_Default(score) ==
    IF score.exists /\ ScoreParses(score.data)
    THEN [fatal |-> FALSE, value |-> << ParsedScore(score.data) >>]
    ELSE [fatal |-> FALSE, value |-> << >>]

\* Step 1 of check_model_drift: deployed_score is None without a
\* latestscore.txt, the parsed float with one, and a record that does not
\* parse raises ValueError.
Baseline(score) ==
    IF ~score.exists THEN [fatal |-> FALSE, value |-> << >>]
    ELSE IF ~ScoreParses(score.data) THEN [fatal |-> TRUE, value |-> << >>]
    ELSE [fatal |-> FALSE, value |-> << ParsedScore(score.data) >>]

\* A comparison against the record the scoring of this stage has just
\* written: the new score is compared with itself.
DriftDeclared_OwnRecord(dscore, nscore) == dscore # <<>> /\ nscore < nscore

\* A comparison that also declares drift on an equal score.
DriftDeclared_NonStrict(dscore, nscore) == dscore # <<>> /\ nscore <= dscore[1]

\* A comparison that declares drift when there is no recorded score.
DriftDeclared_NoBaseline(dscore, nscore) == dscore = <<>> \/ nscore < dscore[1]

\* Step 3 of check_model_drift.
DriftDeclared(dscore, nscore) == dscore # <<>> /\ nscore < dscore[1]

\* The held-out test set test_data_path/testdata.csv that score_model scores
\* against by default.
testdata == File(<< "r1", "r2" >>)

\* ---------------------------------------------------------------- training

\* training.train_model: the pickled model is identified by the data it was
\* fitted on.
TrainedModel(data) == File(data.data)

\* -------------------------------------------------------------- deployment

\* deployment.store_inference_pipe_artifacts: artifact_file_paths, in order.
artifact_file_paths == << "latestscore.txt", "trainedmodel.pkl", "ingestedfiles.txt" >>

Artifact(name) ==
    CASE name = "latestscore.txt" -> staging.score
      [] name = "trainedmodel.pkl" -> staging.model
      [] OTHER -> ledger

\* shutil.copy(artifact, deployment_path) if artifact.exists().
CopyArtifact(name, dep) ==
    IF ~Artifact(name).exists THEN dep
    ELSE CASE name = "latestscore.txt" -> [dep EXCEPT !.score = Artifact(name)]
           [] name = "trainedmodel.pkl" -> [dep EXCEPT !.model = Artifact(name)]
           [] OTHER -> [dep EXCEPT !.ledger = Artifact(name)]

\* -------------------------------------------------------------------- Init

\* The workspace before the first run of fullprocess.py: the input folder
\* holds no source file and the output folder is empty; the model folders
\* are empty, or hold the model that was trained and deployed on the
\* practice data, with or without the score record of that model.
PracticeModel == File(<< "r1" >>)

\* A model folder with nothing in it.
NoSlot == [model |-> NoFile, score |-> NoFile, ledger |-> NoFile]

\* The record score_model wrote for the practice model.
PracticeScore(f1) ==
    [exists |-> TRUE, data |-> << ScoreRecord(f1) >>,
     of |-> PracticeModel.data, on |-> testdata.data]

\* Score records that are not one "<timestamp>, <float>" line: an empty
\* file, a line whose second field is not a float, two lines.
MalformedScores ==
    { File(<< >>),
      File(<< << "ts", "n/a" >> >>),
      File(<< ScoreRecord(2), ScoreRecord(1) >>) }

Init ==
    /\ input = [n \in FileNames |->
                  IF Suffix(n) = ".csv" THEN NoSource ELSE Readable(<< "r1" >>)]
    /\ finaldata = NoFile
    /\ ledger = NoFile
    /\ \E m \in { NoFile, PracticeModel } :
       \E sc \in { NoFile } \cup { PracticeScore(f1) : f1 \in Scores }
                           \cup MalformedScores :
          /\ m = NoFile => sc = NoFile
          /\ staging = [model |-> m,
                        score |-> IF sc \in MalformedScores THEN NoFile ELSE sc]
          /\ deployed = [model |-> m, score |-> sc, ledger |-> NoFile]
    /\ pc = "idle"
    /\ new_files = {}
    /\ deployed_score = <<>>
    /\ new_score = <<>>
    /\ drift = FALSE
    /\ copied = 0
    /\ flask = FALSE
    /\ raised = ""
    /\ before_deploy = NoSlot
    /\ written = "none"
    /\ stages = <<>>
    /\ cycles = 0
    /\ base_path = {}
    /\ file_name = <<>>
    /\ file_path = <<>>
    /\ counter = 0
    /\ path_pc = "off"
    /\ calls = 0
    /\ overwritten = FALSE

main_locals == << new_files, deployed_score, new_score, drift, copied, flask,
                  raised, before_deploy, written, stages >>

\* ------------------------------------------------------ the input location

\* The input folder is read by check_new_data, by the merge of step 2 and by
\* the ingestion.py run of /diagnostics: a change of the folder at any other
\* moment is seen as a change just before one of these.
InputIsRead == pc \in {"idle", "INGEST", "API"}

\* A source file appears in the input folder, or its content is replaced.
PutFile(names) ==
    \E n \in names : \E c \in SourceContents(n) :
        /\ InputIsRead
        /\ input[n] # c
        /\ input' = [input EXCEPT ![n] = c]
        /\ UNCHANGED << path_vars, finaldata, ledger, staging, deployed, pc, main_locals, cycles >>

RemoveFile(names) ==
    \E n \in names :
        /\ InputIsRead
        /\ input[n].exists
        /\ input' = [input EXCEPT ![n] = NoSource]
        /\ UNCHANGED << path_vars, finaldata, ledger, staging, deployed, pc, main_locals, cycles >>

\* ------------------------------------------------------- fullprocess.main

\* python3 fullprocess.py
Start ==
    /\ pc = "idle"
    /\ cycles < MaxCycles
    /\ cycles' = cycles + 1
    /\ pc' = "CHECK_DATA"
    /\ UNCHANGED << path_vars, input, finaldata, ledger, staging, deployed, main_locals >>

\* A step 1 that goes on to ingestion whatever check_new_data returned.
AfterCheckData_Continue(files) == "INGEST"

\* A step 3 that goes on to retraining whatever check_model_drift returned.
AfterCheckDrift_Always(d) == "RETRAIN"

\* A step 3 that skips retraining and deploys when drift is declared.
AfterCheckDrift_SkipRetrain(d) == IF d THEN "DEPLOY" ELSE "DONE"

\* A step 3 that starts the cycle over when no drift is declared.
AfterCheckDrift_Retry(d) == IF d THEN "RETRAIN" ELSE "CHECK_DATA"

\* A step 3 that deploys the staged model when no drift is declared.
AfterCheckDrift_DeployAnyway(d) == IF d THEN "RETRAIN" ELSE "DEPLOY"

\* "if not new_files: return", else step 2.
AfterCheckData(files) == IF files = {} THEN "DONE" ELSE "INGEST"

\* "if not check_model_drift(): return", else step 4.
AfterCheckDrift(d) == IF d THEN "RETRAIN" ELSE "DONE"

\* Step 1: new_files = check_new_data(); return if it is empty.
CheckData ==
    /\ pc = "CHECK_DATA"
    /\ stages' = Append(stages, "CHECK_DATA")
    /\ new_files' = check_new_data(input, ledger)
    /\ pc' = AfterCheckData(new_files')
    /\ UNCHANGED << path_vars, input, finaldata, ledger, staging, deployed,
                    deployed_score, new_score, drift, copied, flask, raised,
                    before_deploy, written, cycles >>

\* Step 2: ingestion.merge_multiple_data_sources(files_to_ingest=new_files).
\* The function catches its own exceptions, so main always goes on.
Ingest ==
    /\ pc = "INGEST"
    /\ stages' = Append(stages, "INGEST")
    /\ \E order \in Orders(new_files), outcome \in WriteOutcomes :
          /\ WithinLedgerBound(order)
          /\ merge_multiple_data_sources(order, outcome)
    /\ pc' = "CHECK_DRIFT"
    /\ UNCHANGED << path_vars, input, staging, deployed, new_files, deployed_score,
                    new_score, drift, copied, flask, raised, before_deploy,
                    cycles >>

\* A drift check that scores the staged model.
DriftInputs_Staging == [slot |-> staging, data |-> finaldata]

\* scoring.score_model(model_path=deployment_path,
\*                     test_data=test_data_file_path)
DriftInputs == [slot |-> deployed, data |-> finaldata]

\* Step 3: check_model_drift().
CheckDrift ==
    /\ pc = "CHECK_DRIFT"
    /\ stages' = Append(stages, "CHECK_DRIFT")
    /\ IF Baseline(deployed.score).fatal
       THEN \* ValueError: invalid format
            /\ pc' = "ABORTED"
            /\ raised' = "ValueError"
            /\ UNCHANGED << deployed, deployed_score, new_score, drift >>
       ELSE /\ deployed_score' = Baseline(deployed.score).value
            /\ \E r \in ScoreResults(DriftInputs.slot, DriftInputs.data) :
                  IF ~r.ok
                  THEN /\ pc' = "ABORTED"
                       /\ raised' = r.error
                       /\ UNCHANGED << deployed, new_score, drift >>
                  ELSE /\ new_score' = << r.f1 >>
                       /\ deployed' =
                             [deployed EXCEPT !.score =
                                 WrittenScore(deployed.score, DriftInputs.slot,
                                              DriftInputs.data, r.f1)]
                       /\ drift' = DriftDeclared(deployed_score', r.f1)
                       /\ pc' = AfterCheckDrift(drift')
                       /\ UNCHANGED raised
    /\ UNCHANGED << path_vars, input, finaldata, ledger, staging, new_files, copied,
                    flask, before_deploy, written, cycles >>

\* training.train_model raises FileNotFoundError without the dataset,
\* KeyError without the columns, and ValueError when fitting fails.
TrainError(data) ==
    IF ~data.exists THEN "FileNotFoundError"
    ELSE IF ~HasColumns(data) THEN "KeyError"
    ELSE "ValueError"

\* Step 4: training.train_model(); fitting may raise.
Retrain ==
    /\ pc = "RETRAIN"
    /\ stages' = Append(stages, "RETRAIN")
    /\ \E fits \in BOOLEAN :
          IF finaldata.exists /\ NoNaN(finaldata) /\ fits
          THEN /\ staging' = [staging EXCEPT !.model = TrainedModel(finaldata)]
               /\ pc' = "DEPLOY"
               /\ UNCHANGED raised
          ELSE /\ pc' = "ABORTED"
               /\ raised' = TrainError(finaldata)
               /\ UNCHANGED staging
    /\ UNCHANGED << path_vars, input, finaldata, ledger, deployed, new_files,
                    deployed_score, new_score, drift, copied, flask,
                    before_deploy, written, cycles >>

\* A copy loop that puts the deployment folder back as it found it when a
\* copy raises.
AfterFailedCopy_Rollback == before_deploy

\* The deployment folder after shutil.copy has raised in the loop: there is
\* no except or cleanup, the copies made so far stay.
AfterFailedCopy == deployed

\* Step 5: deployment.store_inference_pipe_artifacts(), one artifact of the
\* loop at a time; shutil.copy may raise.
DeployCopy ==
    /\ pc = "DEPLOY"
    /\ stages' = IF copied = 0 THEN Append(stages, "DEPLOY") ELSE stages
    /\ before_deploy' = IF copied = 0 THEN deployed ELSE before_deploy
    /\ \E copy_ok \in BOOLEAN :
          IF copy_ok \/ ~Artifact(artifact_file_paths[copied + 1]).exists
          THEN /\ deployed' = CopyArtifact(artifact_file_paths[copied + 1], deployed)
               /\ copied' = copied + 1
               /\ pc' = IF copied' = Len(artifact_file_paths)
                        THEN "SERVE" ELSE "DEPLOY"
               /\ UNCHANGED raised
          ELSE /\ deployed' = AfterFailedCopy
               /\ pc' = "ABORTED"
               /\ raised' = "OSError"
               /\ UNCHANGED copied
    /\ UNCHANGED << path_vars, input, finaldata, ledger, staging, new_files,
                    deployed_score, new_score, drift, flask, written, cycles >>

\* Step 6: flask_process = subprocess.Popen(["python3", "app.py"]).
ServeStart ==
    /\ pc = "SERVE"
    /\ stages' = Append(stages, "SERVE")
    /\ flask' = TRUE
    /\ pc' = "API"
    /\ UNCHANGED << path_vars, input, finaldata, ledger, staging, deployed, new_files,
                    deployed_score, new_score, drift, copied, raised,
                    before_deploy, written, cycles >>

\* How far apicalls.py gets before a request fails (it logs the failure and
\* exits normally): not to /scoring, past /scoring, or into /diagnostics,
\* whose execution_time runs ingestion.py and then training.py.
ApiProgress == {"none", "scoring", "diagnostics"}

\* A serving step without the finally clause: the server is left running
\* when apicalls.py fails.
FlaskAfterApiCalls_NoFinally(exit_ok) == ~exit_ok

\* "finally: flask_process.terminate()": whether the app.py process main
\* started is still running after the try statement.
FlaskAfterApiCalls(exit_ok) == FALSE

\* subprocess.run(["python3", "apicalls.py"], check=True), then the finally
\* clause's flask_process.terminate().  /scoring is score_model() with its
\* defaults: the staged model on testdata.csv.  apicalls.py catches every
\* exception of its requests: it exits with an error only when it fails
\* before them, in its imports or in load_config.
ApiCalls ==
    /\ pc = "API"
    /\ \E progress \in ApiProgress, exit_ok \in BOOLEAN :
          /\ ~exit_ok => progress = "none"
          /\ flask' = FlaskAfterApiCalls(exit_ok)
          /\ IF progress = "diagnostics"
             THEN \E order \in Orders(SourceFiles(input)), outcome \in WriteOutcomes :
                     /\ WithinLedgerBound(order)
                     /\ merge_multiple_data_sources(order, outcome)
             ELSE UNCHANGED << finaldata, ledger, written >>
          /\ \E r \in ScoreResults(staging, testdata) :
                staging' =
                    [model |-> IF /\ progress = "diagnostics"
                                  /\ finaldata'.exists /\ NoNaN(finaldata')
                               THEN TrainedModel(finaldata')
                               ELSE staging.model,
                     score |-> IF progress # "none" /\ r.ok
                               THEN WrittenScore(staging.score, staging,
                                                 testdata, r.f1)
                               ELSE staging.score]
          /\ pc' = IF exit_ok THEN "REPORT" ELSE "ABORTED"
          /\ raised' = IF exit_ok THEN raised ELSE "CalledProcessError"
    /\ UNCHANGED << path_vars, input, deployed, new_files, deployed_score, new_score,
                    drift, copied, before_deploy, stages, cycles >>

\* Step 7: reporting.score_model(); it raises when testdata.csv or its
\* target column is missing.
Report ==
    /\ pc = "REPORT"
    /\ stages' = Append(stages, "REPORT")
    /\ \E ok \in BOOLEAN :
          /\ pc' = IF ok THEN "DONE" ELSE "ABORTED"
          /\ raised' = IF ok THEN raised ELSE "FileNotFoundError"
    /\ UNCHANGED << path_vars, input, finaldata, ledger, staging, deployed, new_files,
                    deployed_score, new_score, drift, copied, flask,
                    before_deploy, written, cycles >>

\* main returns, or the exception that aborted it ends the process.
Exit ==
    /\ pc \in {"DONE", "ABORTED"}
    /\ pc' = "idle"
    /\ new_files' = {}
    /\ deployed_score' = <<>>
    /\ new_score' = <<>>
    /\ drift' = FALSE
    /\ copied' = 0
    /\ raised' = ""
    /\ before_deploy' = NoSlot
    /\ stages' = <<>>
    /\ written' = "none"
    /\ UNCHANGED << path_vars, input, finaldata, ledger, staging, deployed, flask, cycles >>

Pipeline ==
    \/ Start
    \/ CheckData
    \/ Ingest
    \/ CheckDrift
    \/ Retrain
    \/ DeployCopy
    \/ ServeStart
    \/ ApiCalls
    \/ Report
    \/ Exit

Next ==
    \/ PutFile(PlainNames)
    \/ RemoveFile(PlainNames)
    \/ Pipeline

Spec == Init /\ [][Next]_vars

\* The same with a file whose name holds the ledger's field separator.
NextCommaNames ==
    \/ PutFile(CommaNames)
    \/ RemoveFile(CommaNames)
    \/ Pipeline

SpecCommaNames == Init /\ [][NextCommaNames]_vars

\* ------------------------------------------- utils.get_unique_file_path

\* File names of the output folder are sequences of characters.
\* "apireturns.txt" is shortened to "o.t"; "o.b.t" has two dots and "o" has
\* no extension.
BaseNames == { << "o", ".", "t" >>, << "o", ".", "b", ".", "t" >>, << "o" >> }

\* The place of the last "." of a name, 0 when there is none.
LastDot(name) ==
    IF \E i \in 1..Len(name) : name[i] = "."
    THEN CHOOSE i \in 1..Len(name) :
            name[i] = "." /\ \A j \in (i + 1)..Len(name) : name[j] # "."
    ELSE 0

\* file_name.rsplit(".", 1): the parts before and after the last ".", or the
\* whole name alone when it holds no ".".
rsplit(name) ==
    IF LastDot(name) = 0
    THEN << name >>
    ELSE << SubSeq(name, 1, LastDot(name) - 1),
            SubSeq(name, LastDot(name) + 1, Len(name)) >>

Digits == << "0", "1", "2", "3", "4", "5", "6", "7", "8", "9" >>

\* str(n) for a natural number, as characters.
RECURSIVE IntStr(_)
IntStr(n) ==
    IF n < 10 THEN << Digits[n + 1] >>
    ELSE IntStr(n \div 10) \o << Digits[(n % 10) + 1] >>

\* f"{stem}{counter}.{suffix}" after stem, suffix = file_name.rsplit(".", 1)
NumberedPath(name, n) ==
    rsplit(name)[1] \o IntStr(n) \o << "." >> \o rsplit(name)[2]

\* The numbering of the function's documentation: "output_1.txt",
\* "output_2.txt", and so on.
DocumentedPath(name, n) ==
    rsplit(name)[1] \o << "_" >> \o IntStr(n) \o << "." >> \o rsplit(name)[2]

\* The names that may lie in the output folder before the first call for
\* file_name: the name itself and its numbered names of either form.
Candidates(name) ==
    {name} \cup
    IF LastDot(name) = 0 THEN {}
    ELSE { NumberedPath(name, n) : n \in 1..MaxNumber }
         \cup { DocumentedPath(name, n) : n \in 1..MaxNumber }

\* The pipeline is not running; apicalls.py is run on an output folder that
\* holds any of the candidate names.
InitUniquePath ==
    /\ input = [n \in FileNames |->
                  IF Suffix(n) = ".csv" THEN NoSource ELSE Readable(<< "r1" >>)]
    /\ finaldata = NoFile
    /\ ledger = NoFile
    /\ staging = [model |-> NoFile, score |-> NoFile]
    /\ deployed = [model |-> NoFile, score |-> NoFile, ledger |-> NoFile]
    /\ pc = "idle"
    /\ new_files = {}
    /\ deployed_score = <<>>
    /\ new_score = <<>>
    /\ drift = FALSE
    /\ copied = 0
    /\ flask = FALSE
    /\ raised = ""
    /\ before_deploy = NoSlot
    /\ written = "none"
    /\ stages = <<>>
    /\ cycles = 0
    /\ file_name \in BaseNames
    /\ base_path \in SUBSET Candidates(file_name)
    /\ file_path = <<>>
    /\ counter = 0
    /\ path_pc = "idle"
    /\ calls = 0
    /\ overwritten = FALSE

\* output_file = get_unique_file_path(output_model_path, base_file_name):
\* "file_path = base_path / file_name; counter = 2".
GetUniqueFilePath ==
    /\ path_pc = "idle"
    /\ calls < MaxCalls
    /\ calls' = calls + 1
    /\ file_path' = file_name
    /\ counter' = 2
    /\ path_pc' = "while"
    /\ UNCHANGED << vars_pipeline, base_path, file_name, overwritten >>

\* One turn of "while file_path.exists()" for a name with an extension.
WhileExists ==
    /\ path_pc = "while"
    /\ file_path \in base_path
    /\ Len(rsplit(file_name)) = 2
    /\ file_path' = NumberedPath(file_name, counter)
    /\ counter' = counter + 1
    /\ UNCHANGED << vars_pipeline, base_path, file_name, path_pc, calls,
                    overwritten >>

\* "stem, suffix = file_name.rsplit(".", 1)" with a name that holds no ".":
\* one value to unpack, ValueError.
UnpackError ==
    /\ path_pc = "while"
    /\ file_path \in base_path
    /\ Len(rsplit(file_name)) = 1
    /\ path_pc' = "raised"
    /\ UNCHANGED << vars_pipeline, base_path, file_name, file_path, counter,
                    calls, overwritten >>

\* "return file_path" once file_path.exists() is false.
ReturnPath ==
    /\ path_pc = "while"
    /\ file_path \notin base_path
    /\ path_pc' = "returned"
    /\ UNCHANGED << vars_pipeline, base_path, file_name, file_path, counter,
                    calls, overwritten >>

\* write_responses_to_file(api_responses, output_file): open(..., "w")
\* creates the file, or truncates it when it exists.
WriteResponses ==
    /\ path_pc = "returned"
    /\ overwritten' = (file_path \in base_path)
    /\ base_path' = base_path \cup {file_path}
    /\ path_pc' = "idle"
    /\ UNCHANGED << vars_pipeline, file_name, file_path, counter, calls >>

\* apicalls.py's "except Exception": the error is logged, nothing is written.
LogError ==
    /\ path_pc = "raised"
    /\ path_pc' = "idle"
    /\ UNCHANGED << vars_pipeline, base_path, file_name, file_path, counter,
                    calls, overwritten >>

NextUniquePath ==
    \/ GetUniqueFilePath
    \/ WhileExists
    \/ UnpackError
    \/ ReturnPath
    \/ WriteResponses
    \/ LogError

SpecUniquePath == InitUniquePath /\ [][NextUniquePath]_vars

\* =================================================================== claims

\* The names the ledger's lines were written for.
LedgeredNames == { l.file : l \in Range(ledger.data) }

\* The rows of finaldata.csv, as a set.
DatasetRows == Range(finaldata.data)

\* C1: after a completed cycle, every row that a ledgered file held when it
\* was ingested is in finaldata.csv.
C1_LedgerImpliesDataset ==
    pc = "DONE" => \A l \in Range(ledger.data) : Range(l.rows) \subseteq DatasetRows

\* C2: the row set of finaldata.csv only grows: no step removes a row.
C2_DatasetMonotonic ==
    [][ DatasetRows \subseteq Range(finaldata'.data) ]_vars

\* C3: with a deployed score record, drift is declared exactly when the new
\* score is strictly lower; without drift main returns and does not retrain.
C3_DriftIffLower ==
    (new_score # <<>> /\ deployed_score # <<>>) =>
        /\ drift <=> new_score[1] < deployed_score[1]
        /\ ~drift => (pc = "DONE" /\ "RETRAIN" \notin Range(stages))

\* C3 witness: equal scores, no drift, main has returned.
C3_Witness ==
    /\ pc = "DONE"
    /\ new_score # <<>>
    /\ deployed_score = new_score
    /\ ~drift

C5_LedgerIdempotent ==
    [][ \A i \in Len(ledger.data) + 1 .. Len(ledger'.data) :
            ledger'.data[i].file \notin LedgeredNames ]_vars

\* The ledger lines a step appends.
AppendedLines == { ledger'.data[i] : i \in Len(ledger.data) + 1 .. Len(ledger'.data) }

\* C6: a step that appends ledger lines has written the dataset, with the
\* rows of the files the lines are for; when the dataset write of step 2
\* fails, the ledger is left as it was and every file of the batch that is
\* still in the input folder is found new again by check_new_data.
C6_LedgerAfterDataset ==
    [][ /\ ledger' # ledger =>
             /\ written' = "ok"
             /\ finaldata'.exists
             /\ \A l \in AppendedLines : Range(l.rows) \subseteq Range(finaldata'.data)
        /\ (pc = "INGEST" /\ pc' = "CHECK_DRIFT" /\ written' = "dataset_fails") =>
             /\ ledger' = ledger
             /\ (new_files \cap SourceFiles(input')) \subseteq check_new_data(input', ledger')
      ]_vars

\* C6 witness: the dataset write of step 2 failed for a batch that had a
\* parsed file in it.
C6_Witness ==
    /\ pc = "CHECK_DRIFT"
    /\ written = "dataset_fails"
    /\ new_files \cap SourceFiles(input) # {}

\* C7: check_new_data returns every .csv file of the input folder when there
\* is no ledger, and otherwise the .csv files whose names no ledger line was
\* written for.
C7_DiscoverByName ==
    [][ (pc = "CHECK_DATA" /\ pc' # "CHECK_DATA") =>
            new_files' = IF ~ledger.exists
                         THEN SourceFiles(input)
                         ELSE SourceFiles(input) \ LedgeredNames ]_vars

\* C8: when check_new_data finds nothing, main returns at step 1: no other
\* stage runs, and dataset, ledger, score records and models are unchanged.
C8_ShortCircuit ==
    /\ [][ (pc = "CHECK_DATA" /\ check_new_data(input, ledger) = {}) =>
              /\ pc' = "DONE"
              /\ UNCHANGED << finaldata, ledger, staging, deployed >> ]_vars
    /\ []( (stages # <<>> /\ new_files = {}) =>
              (pc = "DONE" /\ stages = << "CHECK_DATA" >>) )

\* C8 witness: main has returned at step 1 with a ledgered file in the input
\* folder.
C8_Witness ==
    /\ pc = "DONE"
    /\ new_files = {}
    /\ stages = << "CHECK_DATA" >>
    /\ SourceFiles(input) # {}

\* C9: when check_model_drift declares no drift, main returns at step 3:
\* no retraining, deployment, serving or reporting in that cycle.
C9_HaltWithoutDrift ==
    (new_score # <<>> /\ ~drift) =>
        /\ pc = "DONE"
        /\ ~flask
        /\ Range(stages) \cap {"RETRAIN", "DEPLOY", "SERVE", "REPORT"} = {}

\* C9 witness: a score was computed, it is not lower than the recorded one,
\* and main has returned.
C9_Witness ==
    /\ pc = "DONE"
    /\ deployed_score # <<>>
    /\ new_score # <<>>
    /\ ~drift
    /\ Len(stages) = 3

\* The stages of the orchestrator, in order.
StageOrder == << "CHECK_DATA", "INGEST", "CHECK_DRIFT", "RETRAIN", "DEPLOY", "REPORT" >>

\* The stages of this cycle without the serving step.
CoreStages == SelectSeq(stages, LAMBDA st : st # "SERVE")

\* C10: the stages run in the order CHECK_DATA, INGEST, CHECK_DRIFT, RETRAIN,
\* DEPLOY, REPORT, each at most once, and main returns normally only after
\* CHECK_DATA (no new files), after CHECK_DRIFT (no drift) or after REPORT.
C10_StageOrder ==
    /\ Len(CoreStages) <= Len(StageOrder)
    /\ CoreStages = SubSeq(StageOrder, 1, Len(CoreStages))
    /\ pc = "DONE" =>
          \/ stages = << "CHECK_DATA" >> /\ new_files = {}
          \/ stages = << "CHECK_DATA", "INGEST", "CHECK_DRIFT" >> /\ ~drift
          \/ stages[Len(stages)] = "REPORT"

\* C10 witness: a cycle has run all six stages and returned.
C10_Witness ==
    /\ pc = "DONE"
    /\ CoreStages = StageOrder

\* C11: a merge writes ledger lines only for files it parsed; when the batch
\* of step 2 holds a valid file beside missing or unparseable ones, the
\* merge still reaches its writes, and when they succeed every valid file
\* has its rows in finaldata.csv and a ledger line.
C11_PerFileIsolation ==
    [][ /\ \A l \in AppendedLines : ValidIn(l.file, input)
        /\ (pc = "INGEST" /\ pc' = "CHECK_DRIFT") =>
              LET valid == { n \in new_files : ValidIn(n, input) }
              IN valid # {} =>
                    /\ written' # "none"
                    /\ written' = "ok" =>
                          \A n \in valid :
                             /\ Range(input[n].data) \subseteq Range(finaldata'.data)
                             /\ \E l \in AppendedLines : l.file = n
      ]_vars

\* C11 witness: step 2 has merged a batch of a valid file and one that is
\* missing or unparseable; only the valid one is in the ledger.
C11_Witness ==
    /\ pc = "CHECK_DRIFT"
    /\ written = "ok"
    /\ \E n, m \in new_files :
          /\ ~ValidIn(n, input)
          /\ ValidIn(m, input)
          /\ m \in LedgeredNames
          /\ n \notin LedgeredNames

\* C12: when no file of the batch of step 2 parses, the merge leaves
\* finaldata.csv and ingestedfiles.txt as they were and returns without an
\* exception: main goes on to step 3.
C12_ZeroParseNoOp ==
    [][ (/\ pc = "INGEST" /\ pc' # "INGEST"
         /\ \A n \in new_files : ~ValidIn(n, input)) =>
            /\ finaldata' = finaldata
            /\ ledger' = ledger
            /\ written' = "none"
            /\ raised' = ""
            /\ pc' = "CHECK_DRIFT" ]_vars

\* C12 witness: step 2 has run over a batch none of whose files parses,
\* with a dataset and a ledger in place from an earlier cycle.
C12_Witness ==
    /\ pc = "CHECK_DRIFT"
    /\ written = "none"
    /\ new_files # {}
    /\ \A n \in new_files : ~ValidIn(n, input)
    /\ finaldata.exists
    /\ ledger.exists

\* C13: when a write of the merge of step 2 fails (finaldata.csv or
\* ingestedfiles.txt), main is aborted by the exception: it does not go on
\* to step 3.
C13_FailFastIngest ==
    [][ (/\ pc = "INGEST" /\ pc' # "INGEST"
         /\ written' \in {"dataset_fails", "ledger_fails"}) =>
            /\ pc' = "ABORTED"
            /\ raised' # "" ]_vars

C15_CopyOrder ==
    [][ pc = "DEPLOY" =>
          /\ copied = 0 => /\ deployed'.score = deployed.score
                           /\ deployed'.model = deployed.model
          /\ copied = 1 => /\ deployed'.model = deployed.model
                           /\ deployed'.ledger = deployed.ledger
          /\ copied = 2 => /\ deployed'.score = deployed.score
                           /\ deployed'.ledger = deployed.ledger ]_vars

\* C16: while step 5 copies and when it has returned, the score record in
\* the deployment folder was computed from the model that lies in the
\* deployment folder; when step 5 has returned, that model is the model
\* step 4 trained.
C16_ScoreBelongsToModel ==
    /\ (pc \in {"DEPLOY", "SERVE"} /\ deployed.model.exists) =>
          /\ deployed.score.exists
          /\ deployed.score.of = deployed.model.data
    /\ pc = "SERVE" => deployed.model = staging.model

\* C17: when step 5 has returned, either the deployed model, score record
\* and ledger are all three the staged ones, or the deployment folder is as
\* step 5 found it.
C17_AtomicPromotion ==
    pc = "SERVE" =>
        \/ /\ deployed.model = staging.model
           /\ deployed.score = staging.score
           /\ deployed.ledger = ledger
        \/ deployed = before_deploy

\* C18: a successful score_model leaves exactly one record in the
\* latestscore.txt of the folder it scored, the record of the score it just
\* computed, whatever the file held before: in the deployment folder at
\* step 3, in the staging folder at /scoring.
C18_SingleSlotScore ==
    [][ /\ (pc = "CHECK_DRIFT" /\ new_score' # << >>) =>
              deployed'.score.data = << ScoreRecord(new_score'[1]) >>
        /\ (pc = "API" /\ staging'.score # staging.score) =>
              /\ Len(staging'.score.data) = 1
              /\ ScoreParses(staging'.score.data) ]_vars

\* C18 witness: step 3 has scored over an earlier record of another score.
C18_Witness ==
    /\ new_score # << >>
    /\ deployed_score # << >>
    /\ deployed_score # new_score
    /\ stages[Len(stages)] = "CHECK_DRIFT"
    /\ deployed.score.data = << ScoreRecord(new_score[1]) >>

\* C19: the score_model call of step 3 raises FileNotFoundError when the
\* deployed model or finaldata.csv is missing and KeyError when
\* finaldata.csv lacks the feature and target columns, and a call that
\* raises leaves the deployed latestscore.txt as it was.
C19_ScorerErrors ==
    [][ (pc = "CHECK_DRIFT" /\ ~Baseline(deployed.score).fatal) =>
          /\ (~deployed.model.exists \/ ~finaldata.exists) =>
                (pc' = "ABORTED" /\ raised' = "FileNotFoundError")
          /\ (/\ deployed.model.exists /\ finaldata.exists
              /\ ~HasColumns(finaldata)) =>
                (pc' = "ABORTED" /\ raised' = "KeyError")
          /\ pc' = "ABORTED" => deployed'.score = deployed.score ]_vars

\* C19 witness: step 3 has raised KeyError on a dataset without the
\* columns, with a score record in the deployment folder.
C19_Witness ==
    /\ pc = "ABORTED"
    /\ raised = "KeyError"
    /\ stages[Len(stages)] = "CHECK_DRIFT"
    /\ deployed.model.exists
    /\ deployed.score.exists
    /\ finaldata.exists

\* C20: no model changes in steps 1 to 3, and the score of step 3 is
\* computed from the model in the deployment folder and from finaldata.csv
\* as it is after step 2: the dataset step 2 merged when its dataset write
\* succeeded.
C20_DriftScoresDeployed ==
    /\ [][ (pc \in {"CHECK_DATA", "INGEST", "CHECK_DRIFT"}) =>
              /\ deployed'.model = deployed.model
              /\ staging'.model = staging.model ]_vars
    /\ []( (/\ pc \in {"DONE", "RETRAIN"}
            /\ new_score # << >>
            /\ stages[Len(stages)] = "CHECK_DRIFT") =>
              /\ deployed.score.of = deployed.model.data
              /\ deployed.score.on = finaldata.data
              /\ written \in {"ok", "ledger_fails"} =>
                    \E order \in Orders(new_files) :
                       finaldata = MergedData(order, input, finaldata) )

\* C20 witness: drift was declared on the dataset step 2 wrote, with a
\* staged model that is not the deployed one.
C20_Witness ==
    /\ pc = "RETRAIN"
    /\ new_score # << >>
    /\ written = "ok"
    /\ staging.model # deployed.model
    /\ deployed.score.on = finaldata.data

\* C21: when step 7 has run, main has returned normally, also when
\* reporting.score_model failed: the failure does not abort the cycle.
C21_ReportNonFatal ==
    "REPORT" \in Range(stages) => (pc = "DONE" /\ raised = "")

\* C22: the step in which a stage after step 2 fails ends main with the
\* exception and undoes nothing: finaldata.csv, ingestedfiles.txt, the
\* deployment folder and the staging folder are as they were before the
\* failing step.
C22_NoRollback ==
    [][ (pc # "ABORTED" /\ pc' = "ABORTED") =>
          /\ pc \in {"CHECK_DRIFT", "RETRAIN", "DEPLOY", "API", "REPORT"}
          /\ raised' # ""
          /\ finaldata' = finaldata
          /\ ledger' = ledger
          /\ deployed' = deployed
          /\ staging' = staging ]_vars

\* C22 witness: a copy of step 5 has raised after an earlier copy changed
\* the deployment folder, with the dataset and the ledger of step 2 in place.
C22_Witness ==
    /\ pc = "ABORTED"
    /\ raised = "OSError"
    /\ copied >= 1
    /\ deployed # before_deploy
    /\ written = "ok"
    /\ finaldata.exists
    /\ ledger.exists

\* C23: every dataset a merge writes is a fixed point of drop_duplicates
\* (dropping duplicates twice is dropping them once), and when finaldata.csv
\* is the merge of the .csv files now in the input folder, the merge that
\* /diagnostics runs over these same files leaves its set of rows as it was.
C23_ReingestIdempotent ==
    [][ /\ finaldata' # finaldata =>
              DropDuplicates(finaldata'.data) = finaldata'.data
        /\ (/\ pc = "API"
            /\ finaldata.exists
            /\ \E order \in Orders(SourceFiles(input)) :
                  finaldata = File(ingest_df(order, input))) =>
              Range(finaldata'.data) = DatasetRows ]_vars

\* C23 witness: /diagnostics has merged again the files step 2 merged, with
\* the same rows: each has two ledger lines, and a row occurred twice.
C23_Witness ==
    /\ pc = "REPORT"
    /\ written = "ok"
    /\ new_files = SourceFiles(input)
    /\ \A n \in new_files :
          \E i, j \in 1 .. Len(ledger.data) :
             /\ i < j
             /\ ledger.data[i].file = n /\ ledger.data[j].file = n
             /\ ledger.data[i].rows = input[n].data
             /\ ledger.data[j].rows = input[n].data
             /\ Len(input[n].data) > Cardinality(Range(input[n].data))
    /\ \E order \in Orders(new_files) : finaldata = File(ingest_df(order, input))

\* C24: no step removes, rewrites or reorders a line of ingestedfiles.txt:
\* the file as it was is a prefix of the file as it is after the step.
C24_LedgerAppendOnly ==
    [][ /\ ledger.exists => ledger'.exists
        /\ Len(ledger'.data) >= Len(ledger.data)
        /\ SubSeq(ledger'.data, 1, Len(ledger.data)) = ledger.data ]_vars

\* C24 witness: step 2 of a second cycle has appended to the lines of the
\* first.
C24_Witness ==
    /\ pc = "CHECK_DRIFT"
    /\ cycles = 2
    /\ written = "ok"
    /\ Len(ledger.data) >= 2
    /\ ledger.data[1].file \notin new_files

\* How far main has got: its position in the sequence of its statements.
Progress(p, c) ==
    CASE p = "CHECK_DATA" -> 1
      [] p = "INGEST" -> 2
      [] p = "CHECK_DRIFT" -> 3
      [] p = "RETRAIN" -> 4
      [] p = "DEPLOY" -> 5 + c
      [] p = "SERVE" -> 8
      [] p = "API" -> 9
      [] p = "REPORT" -> 10
      [] OTHER -> 11

\* main is in the middle of a cycle.
Running == pc \notin {"idle", "DONE", "ABORTED"}

\* C25: a cycle terminates and re-enters no stage: every step of main moves
\* it forward in the sequence of its statements, which ends at DONE or
\* ABORTED; while main is running it has a next step (short of the model's
\* ledger bound); and no stage is entered twice in a cycle.
C25_CycleTerminates ==
    /\ [][ (Running /\ (pc' # pc \/ copied' # copied)) =>
              Progress(pc', copied') > Progress(pc, copied) ]_vars
    /\ []( Running =>
              \/ ENABLED Pipeline
              \/ pc = "INGEST" /\ \A order \in Orders(new_files) :
                                     ~WithinLedgerBound(order) )
    /\ []( Cardinality(Range(stages)) = Len(stages) )

\* C25 witness: a cycle has entered every stage once and ended, aborted by
\* its last stage.
C25_Witness ==
    /\ pc = "ABORTED"
    /\ Len(stages) = 7
    /\ stages[Len(stages)] = "REPORT"

\* C26: ingestedfiles.txt never holds two lines for the same file name,
\* whatever cycles have run, their serving steps included.
C26_OneLinePerFile ==
    \A i, j \in 1 .. Len(ledger.data) :
        i # j => ledger.data[i].file # ledger.data[j].file

\* C27: a step 3 that scores compares the new score with the record that
\* was in the deployment folder when the step began, not with the record
\* its own scoring writes; after the step the deployed latestscore.txt
\* holds the new score.
C27_ReadBeforeScore ==
    [][ (pc = "CHECK_DRIFT" /\ new_score' # << >>) =>
          /\ deployed_score' = IF deployed.score.exists
                               THEN << ParsedScore(deployed.score.data) >>
                               ELSE << >>
          /\ drift' <=> /\ deployed.score.exists
                        /\ new_score'[1] < ParsedScore(deployed.score.data)
          /\ ParsedScore(deployed'.score.data) = new_score'[1] ]_vars

\* C27 witness: drift was declared against the earlier record, and the
\* deployment folder now holds the lower new score.
C27_Witness ==
    /\ pc = "RETRAIN"
    /\ drift
    /\ deployed_score # << >>
    /\ new_score[1] < deployed_score[1]
    /\ ParsedScore(deployed.score.data) = new_score[1]

\* C28: only a copy of step 5 changes the deployed trainedmodel.pkl, and
\* it puts the staged model there; step 5 runs only after step 3 declared
\* drift and step 4 trained the staged model on finaldata.csv.  So a cycle
\* that ends before step 5 leaves the deployed model as it was.
C28_ModelWrittenByDeploy ==
    /\ [][ deployed'.model # deployed.model =>
              (pc = "DEPLOY" /\ deployed'.model = staging.model) ]_vars
    /\ []( pc = "DEPLOY" =>
              /\ drift
              /\ SubSeq(stages, 1, 4) =
                    << "CHECK_DATA", "INGEST", "CHECK_DRIFT", "RETRAIN" >>
              /\ staging.model = TrainedModel(finaldata) )

\* C28 witness: step 5 has returned and the deployed model is a new one.
C28_Witness ==
    /\ pc = "SERVE"
    /\ drift
    /\ deployed.model # before_deploy.model
    /\ deployed.model = staging.model

\* C29: a cycle that starts, not as the first one, with a ledger that holds
\* for every .csv file of the input folder a line written for that file with
\* the rows the file still has (the earlier cycle parsed and logged each of
\* them, and the folder was not touched since) discovers no new file and
\* ends at step 1.
C29_Convergence ==
    [][ ( /\ pc = "CHECK_DATA"
          /\ cycles >= 2
          /\ finaldata.exists
          /\ ledger.exists
          /\ \A n \in SourceFiles(input) :
                \E l \in Range(ledger.data) :
                    l.file = n /\ l.rows = input[n].data ) =>
            (new_files' = {} /\ pc' = "DONE") ]_vars

\* C30: the app.py process that step 6 started runs only while apicalls.py
\* runs: the step that leaves the API calls, to step 7 when apicalls.py
\* succeeded and to the abort when it failed, has terminated it, so it is
\* running neither during step 7 nor when the cycle has ended.
C30_FlaskTerminated ==
    /\ [][ (pc = "API" /\ pc' # "API") =>
              /\ flask
              /\ ~flask'
              /\ pc' \in {"REPORT", "ABORTED"} ]_vars
    /\ []( flask => pc = "API" )

\* C30 witness: apicalls.py failed, main is aborted by CalledProcessError
\* and the app.py process was terminated.
C30_Witness ==
    /\ pc = "ABORTED"
    /\ raised = "CalledProcessError"
    /\ "SERVE" \in Range(stages)
    /\ ~flask

\* C31: the path get_unique_file_path returns does not exist in the
\* directory and is numbered as documented: the plain name when it is free,
\* otherwise the first of name_1, name_2, ... that is free; and the write
\* that follows overwrites no file.
C31_UniqueNumberedPath ==
    /\ path_pc = "returned" =>
          /\ file_path \notin base_path
          /\ file_path =
                IF file_name \notin base_path THEN file_name
                ELSE DocumentedPath(file_name,
                        CHOOSE n \in 1..(Cardinality(base_path) + 1) :
                           /\ DocumentedPath(file_name, n) \notin base_path
                           /\ \A m \in 1..(n - 1) :
                                 DocumentedPath(file_name, m) \in base_path)
    /\ ~overwritten

====
